---------------------------- MODULE Spec2Model ----------------------------
(***************************************************************************)
(* Scoring and derived-metrics calculators of the CRM backend              *)
(* (ultimate-crm/backend/app/models): Lead.calculate_lead_score,           *)
(* Customer.calculate_health_score, Campaign.calculate_metrics,            *)
(* CampaignMetric.calculate_rates, InvoiceItem.calculate_total,            *)
(* Invoice.calculate_totals, Invoice.add_payment,                          *)
(* Payment.calculate_net_amount, Opportunity.calculate_weighted_amount     *)
(* and PricingTier.calculate_price; the tag lists of the models; the       *)
(* session generators of core/database.py and the list_customers endpoint  *)
(* of api/v1/endpoints/customers.py with the handlers of main.py.          *)
(*                                                                         *)
(* A behaviour follows one record of one entity class (variable entity).   *)
(* The calculators share no state and each call reads and writes only the  *)
(* record it is made on, so the behaviours of the program are the          *)
(* behaviours of the single records.                                       *)
(*                                                                         *)
(* Representation of values:                                               *)
(*   - NULL is Python's None / SQL NULL.                                   *)
(*   - A timestamp is a record [t, aware]: t counts half days, aware says  *)
(*     whether the datetime carries tzinfo.  datetime.utcnow() is naive.   *)
(*   - Decimal amounts of the invoice classes are integers counting        *)
(*     1/10000 of a currency unit; Decimal arithmetic on the modelled      *)
(*     values (two-digit amounts times whole percents) is exact.           *)
(*   - A campaign rate is the exact fraction [num, den] in lowest terms    *)
(*     of the value the float expression produces.                         *)
(***************************************************************************)
EXTENDS Integers, Sequences, FiniteSets

VARIABLES
    entity,     \* the entity class whose record this behaviour exercises
    op,         \* the last operation: "init", "update", "tick", "calc", "recalc", "raise", "pay",
                \* "step" (one statement of a call that shares its record with another call),
                \* "add", "remove" (of a tag), "open", "finish", "throw" (of a session
                \* generator), "serve", "respond" (of a request)
    fresh,      \* TRUE iff a calculator call has completed and no input field changed since
    now,        \* the clock datetime.utcnow() reads, in half days
    readDays,   \* days_since_contact as read by the last clock-reading call, NULL if it read none
    updates,    \* field updates and add_payment calls made by the record's owner so far
    arg,        \* the argument of the last call that takes one, NULL before
    returned,   \* the value the last call returned, NULL if it returned None or nothing was called
    record      \* the record the calls are made on: a Lead, Customer, Campaign, CampaignMetric,
                \* InvoiceItem, Invoice (with the total_amount of each of its items), Payment,
                \* Opportunity, PricingTier, the tag list of a record, the session
                \* generators or a list_customers request, as entity says

vars == <<entity, op, fresh, now, readDays, updates, arg, returned, record>>

\* A nullable value is NULL (None) or Some(v); Val reads the value of Some(v).
NULL == <<>>
Some(v) == <<v>>
Val(o) == o[1]

\* Half days the clock may advance during a behaviour.
MaxTicks == 1
\* Largest value of a campaign counter.
MaxCount == 2
\* Field updates the owner of a record makes during a behaviour.
MaxUpdates == 3
\* Largest quantity of an invoice item.
MaxQuantity == 2
\* Most items of an invoice.
MaxItems == 2
\* Most add_payment calls on an invoice.
MaxPayments == 2
\* Largest quantity a price is asked for.
MaxTierQuantity == 4

Min(a, b) == IF a <= b THEN a ELSE b

\* A completed calculator call is a "recalc" when it repeats a call on unchanged
\* input fields, and a "calc" otherwise.
CallLabel(f) == IF f THEN "recalc" ELSE "calc"
Called == op \in {"calc", "recalc"}

\* Python truth of a nullable number: None and 0 are false.
Truthy(o) == o # NULL /\ Val(o) # 0

-----------------------------------------------------------------------------
(* Timestamps and the clock *)

\* timedelta.days: whole days, rounded towards minus infinity.
HalfDaysPerDay == 2

Naive(t) == Some([t |-> t, aware |-> FALSE])
Aware(t) == Some([t |-> t, aware |-> TRUE])

\* (datetime.utcnow() - d) raises TypeError when d is offset-aware.
ClockRaises(d) == d # NULL /\ Val(d).aware

DaysSince(d, clock) == (clock - Val(d).t) \div HalfDaysPerDay

-----------------------------------------------------------------------------
(* Lead.calculate_lead_score *)

\* Lower-case letter of a character (str.lower on the characters used).
LowerChar(c) ==
    CASE c = "C" -> "c"
      [] c = "D" -> "d"
      [] c = "E" -> "e"
      [] c = "M" -> "m"
      [] c = "O" -> "o"
      [] c = "S" -> "s"
      [] c = "T" -> "t"
      [] OTHER -> c

Lower(s) == [i \in 1..Len(s) |-> LowerChar(s[i])]

\* Python's `sub in s` for strings: sub occurs as a contiguous slice of s.
Contains(sub, s) ==
    \E i \in 0..(Len(s) - Len(sub)) :
        \A j \in 1..Len(sub) : s[i + j] = sub[j]

TitleKeywords ==
    { <<"c", "e", "o">>, <<"c", "t", "o">>,
      <<"m", "a", "n", "a", "g", "e", "r">>,
      <<"d", "i", "r", "e", "c", "t", "o", "r">> }

DemographicRaw(l) ==
    (IF l.company_size \in {Some("Large"), Some("Enterprise")} THEN 10
     ELSE IF l.company_size \in {Some("Medium")} THEN 5
     ELSE 0)
  + (IF Truthy(l.annual_revenue) /\ Val(l.annual_revenue) > 1000000 THEN 10
     ELSE IF Truthy(l.annual_revenue) /\ Val(l.annual_revenue) > 100000 THEN 5
     ELSE 0)
  + (IF l.job_title # NULL /\ Val(l.job_title) # <<>>
        /\ \E k \in TitleKeywords : Contains(k, Lower(Val(l.job_title)))
     THEN 10 ELSE 0)

\* Variant: more than 10 website visits earn less than 6 to 10 visits.
BehavioralRawVisitsDiscounted(l) ==
    (IF l.website_visits > 10 THEN 5
     ELSE IF l.website_visits > 5 THEN 10
     ELSE IF l.website_visits > 0 THEN 5
     ELSE 0)
  + (IF l.email_opens > 5 THEN 10
     ELSE IF l.email_opens > 2 THEN 5
     ELSE 0)
  + (IF l.email_clicks > 3 THEN 15
     ELSE IF l.email_clicks > 0 THEN 10
     ELSE 0)

BehavioralRaw(l) ==
    (IF l.website_visits > 10 THEN 15
     ELSE IF l.website_visits > 5 THEN 10
     ELSE IF l.website_visits > 0 THEN 5
     ELSE 0)
  + (IF l.email_opens > 5 THEN 10
     ELSE IF l.email_opens > 2 THEN 5
     ELSE 0)
  + (IF l.email_clicks > 3 THEN 15
     ELSE IF l.email_clicks > 0 THEN 10
     ELSE 0)

\* Variant: the bonus of 10 is decided on the age in half days (at most 3 days)
\* instead of on the whole days.
RecencyBonusByHalfDays(d, clock) ==
    IF d = NULL THEN 0
    ELSE IF clock - Val(d).t <= 3 * HalfDaysPerDay THEN 10
    ELSE IF DaysSince(d, clock) <= 30 THEN 5
    ELSE 0

RecencyBonus(d, clock) ==
    IF d = NULL THEN 0
    ELSE IF DaysSince(d, clock) <= 7 THEN 10
    ELSE IF DaysSince(d, clock) <= 30 THEN 5
    ELSE 0

\* Variant: more than 10 interactions earn 25 points.
EngagementRawGenerous(l, clock) ==
    (IF l.total_interactions > 10 THEN 25
     ELSE IF l.total_interactions > 5 THEN 15
     ELSE IF l.total_interactions > 0 THEN 10
     ELSE 0)
  + RecencyBonus(l.last_contact_date, clock)

EngagementRaw(l, clock) ==
    (IF l.total_interactions > 10 THEN 20
     ELSE IF l.total_interactions > 5 THEN 15
     ELSE IF l.total_interactions > 0 THEN 10
     ELSE 0)
  + RecencyBonus(l.last_contact_date, clock)

\* Variant: the hot tier starts above 80 instead of at 80.
LeadQualityStrict(score) ==
    IF score > 80 THEN "hot"
    ELSE IF score >= 50 THEN "warm"
    ELSE "cold"

LeadQualityOf(score) ==
    IF score >= 80 THEN "hot"
    ELSE IF score >= 50 THEN "warm"
    ELSE "cold"

\* Variant: the engagement sub-score is left out of the total.
LeadTotalNoEngagement(d, b, e) == Min(d + b, 100)

LeadTotal(d, b, e) == Min(d + b + e, 100)

\* Variant: a lead scored hot is also moved to the status qualified.
LeadScoredQualifying(l, clock) ==
    LET d == Min(DemographicRaw(l), 30)
        b == Min(BehavioralRaw(l), 40)
        e == Min(EngagementRaw(l, clock), 30)
        s == LeadTotal(d, b, e)
    IN  [l EXCEPT !.demographic_score = d,
                  !.behavioral_score = b,
                  !.engagement_score = e,
                  !.lead_score = s,
                  !.quality = Some(LeadQualityOf(s)),
                  !.status = IF s >= 80 THEN "qualified" ELSE @]

\* The lead after the assignments of lines 185-199.
LeadScored(l, clock) ==
    LET d == Min(DemographicRaw(l), 30)
        b == Min(BehavioralRaw(l), 40)
        e == Min(EngagementRaw(l, clock), 30)
        s == LeadTotal(d, b, e)
    IN  [l EXCEPT !.demographic_score = d,
                  !.behavioral_score = b,
                  !.engagement_score = e,
                  !.lead_score = s,
                  !.quality = Some(LeadQualityOf(s))]

CompanySizes == {NULL, Some("Small"), Some("Medium"), Some("Large"), Some("Enterprise")}
Revenues == {NULL, Some(100000), Some(1000000), Some(1000001)}
JobTitles == {NULL, Some(<<"C", "T", "O">>), Some(<<"D", "e", "v">>)}
VisitValues == {0, 5, 10, 11}
OpenValues == {2, 5, 6}
ClickValues == {0, 3, 4}
InteractionValues == {0, 5, 10, 11}
\* Ages in half days: 3, 7.5 and 30.5 days before the initial clock.
LeadContactDates == {NULL, Naive(-6), Naive(-15), Naive(-61), Aware(-6)}

DefaultLead ==
    [company_size |-> NULL, annual_revenue |-> NULL, job_title |-> NULL,
     website_visits |-> 0, email_opens |-> 0, email_clicks |-> 0,
     total_interactions |-> 0, last_contact_date |-> NULL,
     status |-> "new",
     demographic_score |-> 0, behavioral_score |-> 0, engagement_score |-> 0,
     lead_score |-> 0, quality |-> NULL]

LeadRecords ==
    { [DefaultLead EXCEPT !.company_size = cs, !.annual_revenue = ar, !.job_title = jt,
                          !.website_visits = wv, !.email_opens = eo, !.email_clicks = ec,
                          !.total_interactions = ti, !.last_contact_date = lc] :
        cs \in CompanySizes, ar \in Revenues, jt \in JobTitles, wv \in VisitValues,
        eo \in OpenValues, ec \in ClickValues, ti \in InteractionValues,
        lc \in LeadContactDates }

CalculateLeadScore ==
    /\ entity = "lead"
    /\ IF ClockRaises(record.last_contact_date)
       THEN /\ op' = "raise"
            /\ UNCHANGED <<record, fresh, readDays, returned>>
       ELSE /\ record' = LeadScored(record, now)
            /\ returned' = Some(record'.lead_score)
            /\ op' = CallLabel(fresh)
            /\ fresh' = TRUE
            /\ readDays' = IF record.last_contact_date = NULL THEN NULL
                           ELSE Some(DaysSince(record.last_contact_date, now))
    /\ UNCHANGED <<entity, now, updates, arg>>

-----------------------------------------------------------------------------
(* Python numbers: the type decides whether an arithmetic step raises *)

\* A number is [ty, v]: ty is "int", "float" or "Decimal" and v counts
\* thousandths.  float arithmetic is taken as exact.
PyInt(n) == [ty |-> "int", v |-> n * 1000]
PyFloat(v) == [ty |-> "float", v |-> v]
PyDecimal(v) == [ty |-> "Decimal", v |-> v]
TypeError == [ty |-> "TypeError", v |-> 0]

\* a + b: float and Decimal do not mix (TypeError); an int takes the other's type.
PyAdd(a, b) ==
    IF a.ty = "TypeError" \/ b.ty = "TypeError" THEN TypeError
    ELSE IF {a.ty, b.ty} = {"float", "Decimal"} THEN TypeError
    ELSE [ty |-> IF a.ty = "int" THEN b.ty ELSE a.ty, v |-> a.v + b.v]

\* min(a, b): the first argument unless the second is smaller; it keeps its type.
PyMin(a, b) ==
    IF a.ty = "TypeError" \/ b.ty = "TypeError" THEN TypeError
    ELSE IF b.v < a.v THEN b ELSE a

-----------------------------------------------------------------------------
(* Customer.calculate_health_score *)

\* Lines 148-149: engagement_score is an int, engagement_score * 0.4 a float.
HealthEngagement(c, score) ==
    IF Truthy(c.engagement_score)
    THEN PyAdd(score, PyMin(PyFloat(Val(c.engagement_score) * 400), PyInt(40)))
    ELSE score

\* Lines 152-153: satisfaction_score keeps its own type, counted in hundredths.
HealthSatisfaction(c, score) ==
    IF c.satisfaction_score # NULL /\ Val(c.satisfaction_score).v # 0
    THEN PyAdd(score, [ty |-> Val(c.satisfaction_score).ty,
                       v |-> Val(c.satisfaction_score).v * 10 * 2])
    ELSE score

\* Lines 156-161.
HealthRecency(c, score, clock) ==
    IF c.last_contact_date = NULL THEN score
    ELSE IF ClockRaises(c.last_contact_date) THEN TypeError
    ELSE IF DaysSince(c.last_contact_date, clock) <= 30 THEN PyAdd(score, PyInt(20))
    ELSE IF DaysSince(c.last_contact_date, clock) <= 90 THEN PyAdd(score, PyInt(10))
    ELSE score

\* Lines 164-165: total_revenue in whole currency units; float(r) / 1000 is r thousandths.
HealthRevenue(c, score) ==
    IF Truthy(c.total_revenue) /\ Val(c.total_revenue) > 0
    THEN PyAdd(score, PyMin(PyFloat(Val(c.total_revenue)), PyInt(20)))
    ELSE score

HealthClamp(score) == PyMin(score, PyInt(100))

\* The statements run in order, so the first TypeError is the one raised.
HealthScore(c, clock) ==
    LET s1 == HealthEngagement(c, PyInt(0))
        s2 == HealthSatisfaction(c, s1)
        s3 == IF s2.ty = "TypeError" THEN s2 ELSE HealthRecency(c, s2, clock)
        s4 == HealthRevenue(c, s3)
    IN  HealthClamp(s4)

\* Whether the call gets as far as reading the clock (line 157).
HealthReadsClock(c) ==
    /\ c.last_contact_date # NULL
    /\ HealthSatisfaction(c, HealthEngagement(c, PyInt(0))).ty # "TypeError"
    /\ ~ClockRaises(c.last_contact_date)

EngagementScores == {NULL, Some(-10), Some(0), Some(50), Some(100), Some(150)}
\* Hundredths of a point on the 0-10 scale: 8.50 and 10 as Decimal, 10.0 as float.
SatisfactionScores == {NULL, Some(PyDecimal(850)), Some(PyDecimal(1000)), Some(PyFloat(1000))}
\* 3, 30.5, 90.5 and 200 days before the initial clock.
CustomerContactDates == {NULL, Naive(-6), Naive(-61), Naive(-181), Naive(-400), Aware(-6)}
TotalRevenues == {NULL, Some(0), Some(5000), Some(20000), Some(50000)}

DefaultCustomer ==
    [engagement_score |-> Some(0), satisfaction_score |-> NULL,
     last_contact_date |-> NULL, total_revenue |-> Some(0), status |-> "prospect"]

CustomerRecords ==
    { [DefaultCustomer EXCEPT !.engagement_score = es, !.satisfaction_score = ss,
                              !.last_contact_date = lc, !.total_revenue = tr] :
        es \in EngagementScores, ss \in SatisfactionScores,
        lc \in CustomerContactDates, tr \in TotalRevenues }

CalculateHealthScore ==
    /\ entity = "customer"
    /\ IF HealthScore(record, now).ty = "TypeError"
       THEN /\ op' = "raise"
            /\ UNCHANGED <<fresh, readDays, returned>>
       ELSE /\ returned' = Some(HealthScore(record, now))
            /\ op' = CallLabel(fresh)
            /\ fresh' = TRUE
            /\ readDays' = IF HealthReadsClock(record)
                           THEN Some(DaysSince(record.last_contact_date, now))
                           ELSE NULL
    /\ UNCHANGED <<entity, now, updates, arg, record>>

-----------------------------------------------------------------------------
(* Campaign.calculate_metrics and CampaignMetric.calculate_rates *)

RECURSIVE Gcd(_, _)
Gcd(a, b) == IF b = 0 THEN a ELSE Gcd(b, a % b)

\* Variant: the ratio is taken upside down, d / n.
RateInverted(n, d) ==
    LET g == Gcd(d * 100, n)
    IN  [num |-> (d * 100) \div g, den |-> n \div g]

\* Variant: the ratio is not scaled to a percentage.
RateUnscaled(n, d) ==
    LET g == Gcd(n, d)
    IN  [num |-> n \div g, den |-> d \div g]

\* (n / d) * 100 for counters n >= 0 and d > 0, as a fraction in lowest terms.
Rate(n, d) ==
    LET g == Gcd(n * 100, d)
    IN  [num |-> (n * 100) \div g, den |-> d \div g]

Counters == {"sent_count", "delivered_count", "opened_count", "clicked_count", "converted_count"}

\* Lines 123-133: each rate is assigned only under its guard.
CampaignRates(c) ==
    [c EXCEPT
       !.delivery_rate = IF c.sent_count > 0
                         THEN Some(Rate(c.delivered_count, c.sent_count)) ELSE @,
       !.open_rate = IF c.delivered_count > 0
                     THEN Some(Rate(c.opened_count, c.delivered_count)) ELSE @,
       !.click_rate = IF c.opened_count > 0
                      THEN Some(Rate(c.clicked_count, c.opened_count)) ELSE @,
       !.conversion_rate = IF c.clicked_count > 0
                           THEN Some(Rate(c.converted_count, c.clicked_count)) ELSE @]

\* Lines 245-255: the same statements on the per-day record.
MetricRates(m) ==
    [m EXCEPT
       !.delivery_rate = IF m.sent_count > 0
                         THEN Some(Rate(m.delivered_count, m.sent_count)) ELSE @,
       !.open_rate = IF m.delivered_count > 0
                     THEN Some(Rate(m.opened_count, m.delivered_count)) ELSE @,
       !.click_rate = IF m.opened_count > 0
                      THEN Some(Rate(m.clicked_count, m.opened_count)) ELSE @,
       !.conversion_rate = IF m.clicked_count > 0
                           THEN Some(Rate(m.converted_count, m.clicked_count)) ELSE @]

\* A new record: the counters' column default is 0, the rates have none.
DefaultCampaign ==
    [sent_count |-> 0, delivered_count |-> 0, opened_count |-> 0,
     clicked_count |-> 0, converted_count |-> 0,
     delivery_rate |-> NULL, open_rate |-> NULL, click_rate |-> NULL,
     conversion_rate |-> NULL]

DefaultMetric == DefaultCampaign

CalculateMetrics ==
    /\ entity = "campaign"
    /\ record' = CampaignRates(record)
    /\ returned' = NULL
    /\ op' = CallLabel(fresh)
    /\ fresh' = TRUE
    /\ UNCHANGED <<entity, now, readDays, updates, arg>>

CalculateRates ==
    /\ entity = "metric"
    /\ record' = MetricRates(record)
    /\ returned' = NULL
    /\ op' = CallLabel(fresh)
    /\ fresh' = TRUE
    /\ UNCHANGED <<entity, now, readDays, updates, arg>>

\* The owner of the record assigns a counter column.
SetCampaignCounter ==
    /\ entity = "campaign"
    /\ updates < MaxUpdates
    /\ \E f \in Counters, n \in 0..MaxCount :
          /\ record[f] # n
          /\ record' = [record EXCEPT ![f] = n]
    /\ updates' = updates + 1
    /\ op' = "update"
    /\ fresh' = FALSE
    /\ UNCHANGED <<entity, now, readDays, arg, returned>>

SetMetricCounter ==
    /\ entity = "metric"
    /\ updates < MaxUpdates
    /\ \E f \in Counters, n \in 0..MaxCount :
          /\ record[f] # n
          /\ record' = [record EXCEPT ![f] = n]
    /\ updates' = updates + 1
    /\ op' = "update"
    /\ fresh' = FALSE
    /\ UNCHANGED <<entity, now, readDays, arg, returned>>

-----------------------------------------------------------------------------
(* InvoiceItem.calculate_total *)

\* A Decimal amount of n currency units, in 1/10000 of a unit.
Money(n) == n * 10000

\* Python's `x or 0` on a nullable Decimal.
OrZero(o) == IF o = NULL THEN 0 ELSE Val(o)

\* Line 185.
ItemSubtotal(i) == Money(i.quantity * i.unit_price)

\* Lines 188-189: assigned only when discount_percent is set and not zero.
ItemDiscount(i) ==
    IF Truthy(i.discount_percent)
    THEN Some((ItemSubtotal(i) * Val(i.discount_percent)) \div 100)
    ELSE i.discount_amount

\* Line 191.
ItemAfterDiscount(i) == ItemSubtotal(i) - OrZero(ItemDiscount(i))

\* Lines 194-195: assigned only when tax_rate is set and not zero.
ItemTax(i) ==
    IF Truthy(i.tax_rate)
    THEN Some((ItemAfterDiscount(i) * Val(i.tax_rate)) \div 100)
    ELSE i.tax_amount

\* Lines 183-198.
ItemTotalled(i) ==
    [i EXCEPT !.discount_amount = ItemDiscount(i),
              !.tax_amount = ItemTax(i),
              !.total_amount = Some(ItemAfterDiscount(i) + OrZero(ItemTax(i)))]

Quantities == 1..MaxQuantity
UnitPrices == {50, 100}
DiscountPercents == {NULL, Some(0), Some(10)}
ItemTaxRates == {NULL, Some(0), Some(5)}

\* A new item in memory (no column default applied yet) or a stored one
\* (discount_amount and tax_amount default to 0).
ItemRecords ==
    { [quantity |-> q, unit_price |-> up, discount_percent |-> dp, tax_rate |-> tr,
       discount_amount |-> d, tax_amount |-> d, total_amount |-> d] :
        q \in Quantities, up \in UnitPrices, dp \in DiscountPercents,
        tr \in ItemTaxRates, d \in {NULL, Some(0)} }

CalculateItemTotal ==
    /\ entity = "item"
    /\ record' = ItemTotalled(record)
    /\ returned' = record'.total_amount
    /\ op' = CallLabel(fresh)
    /\ fresh' = TRUE
    /\ UNCHANGED <<entity, now, readDays, updates, arg>>

\* The owner of the item assigns one of its input columns.
SetItemField ==
    /\ entity = "item"
    /\ updates < MaxUpdates
    /\ \/ \E q \in Quantities : q # record.quantity /\ record' = [record EXCEPT !.quantity = q]
       \/ \E up \in UnitPrices : up # record.unit_price /\ record' = [record EXCEPT !.unit_price = up]
       \/ \E dp \in DiscountPercents :
             dp # record.discount_percent /\ record' = [record EXCEPT !.discount_percent = dp]
       \/ \E tr \in ItemTaxRates : tr # record.tax_rate /\ record' = [record EXCEPT !.tax_rate = tr]
    /\ updates' = updates + 1
    /\ op' = "update"
    /\ fresh' = FALSE
    /\ UNCHANGED <<entity, now, readDays, arg, returned>>

-----------------------------------------------------------------------------
(* Invoice.calculate_totals and Invoice.add_payment *)

RECURSIVE SumSeq(_)
SumSeq(q) == IF q = <<>> THEN 0 ELSE q[1] + SumSeq(Tail(q))

\* Variant: the subtotal accumulates over calls instead of being recomputed.
InvoiceTotalledAccumulating(inv) ==
    LET sub == inv.subtotal + SumSeq(inv.items)
        tax == (sub * inv.tax_rate) \div 100
        total == sub + tax - inv.discount_amount
    IN  [inv EXCEPT !.subtotal = sub,
                    !.tax_amount = tax,
                    !.total_amount = total,
                    !.due_amount = total - inv.paid_amount]

\* Variant: the invoice-level tax is taken on the subtotal less the discount.
InvoiceTotalledTaxAfterDiscount(inv) ==
    LET sub == SumSeq(inv.items)
        tax == ((sub - inv.discount_amount) * inv.tax_rate) \div 100
        total == sub + tax - inv.discount_amount
    IN  [inv EXCEPT !.subtotal = sub,
                    !.tax_amount = tax,
                    !.total_amount = total,
                    !.due_amount = total - inv.paid_amount]

\* Lines 119-122.  invoice.items holds item.total_amount of each item.
InvoiceTotalled(inv) ==
    LET sub == SumSeq(inv.items)
        tax == (sub * inv.tax_rate) \div 100
        total == sub + tax - inv.discount_amount
    IN  [inv EXCEPT !.subtotal = sub,
                    !.tax_amount = tax,
                    !.total_amount = total,
                    !.due_amount = total - inv.paid_amount]

\* Variant: due_amount is not recomputed after the payment.
DueNotRecomputed(inv, paid) == inv.due_amount

\* Line 127.
DueAfterPayment(inv, paid) == inv.total_amount - paid

\* Variant: an invoice with nothing left due is not yet paid.
StatusPaidOnlyWhenOverpaid(inv, paid, due) ==
    IF due < 0 THEN "paid"
    ELSE IF paid > 0 THEN "partially_paid"
    ELSE inv.status

\* Variant: an overpaid invoice counts as partially paid.
StatusPaidOnlyWhenExact(inv, paid, due) ==
    IF due = 0 THEN "paid"
    ELSE IF paid > 0 THEN "partially_paid"
    ELSE inv.status

\* Lines 130-134.
StatusAfterPayment(inv, paid, due) ==
    IF due <= 0 THEN "paid"
    ELSE IF paid > 0 THEN "partially_paid"
    ELSE inv.status

\* Variant: due_amount is computed before the payment is added to paid_amount.
InvoicePaidDueFirst(inv, a) ==
    LET paid == inv.paid_amount + a
        due == DueAfterPayment(inv, inv.paid_amount)
    IN  [inv EXCEPT !.paid_amount = paid,
                    !.due_amount = due,
                    !.status = StatusAfterPayment(inv, paid, due),
                    !.paid_date = IF due <= 0 THEN Some("now") ELSE @]

\* Lines 126-134, for a Decimal amount a.
InvoicePaid(inv, a) ==
    LET paid == inv.paid_amount + a
        due == DueAfterPayment(inv, paid)
    IN  [inv EXCEPT !.paid_amount = paid,
                    !.due_amount = due,
                    !.status = StatusAfterPayment(inv, paid, due),
                    !.paid_date = IF due <= 0 THEN Some("now") ELSE @]

\* total_amount of the items an invoice may hold.
ItemTotals == {Money(100), Money(189)}
InvoiceTaxRates == {0, 8}
InvoiceDiscounts == {0, Money(10)}

DefaultInvoice ==
    [subtotal |-> 0, tax_amount |-> 0, discount_amount |-> 0, total_amount |-> 0,
     paid_amount |-> 0, due_amount |-> 0, tax_rate |-> 0, status |-> "draft",
     paid_date |-> NULL, items |-> <<>>]

InvoiceRecords ==
    { [DefaultInvoice EXCEPT !.tax_rate = tr, !.discount_amount = d] :
        tr \in InvoiceTaxRates, d \in InvoiceDiscounts }

\* The amounts add_payment is called with: a Decimal (a fixed amount, a refund,
\* the invoice total) or a float, as the signature announces.
PaymentArgs(inv) ==
    { PyDecimal(Money(50)), PyDecimal(-Money(50)), PyDecimal(inv.total_amount),
      PyFloat(Money(50)) }

CalculateTotals ==
    /\ entity = "invoice"
    /\ record' = InvoiceTotalled(record)
    /\ returned' = NULL
    /\ op' = CallLabel(fresh)
    /\ fresh' = TRUE
    /\ UNCHANGED <<entity, now, readDays, updates, arg>>

\* add_payment called with an amount of the set args.  paid_amount is a
\* Decimal: `+=` with a float raises TypeError before any assignment.
AddPaymentOf(args) ==
    /\ entity = "invoice"
    /\ updates < MaxPayments
    /\ \E a \in args :
          /\ arg' = Some(a)
          /\ IF a.ty = "float"
             THEN /\ op' = "raise"
                  /\ UNCHANGED <<record, fresh>>
             ELSE /\ record' = InvoicePaid(record, a.v)
                  /\ op' = "pay"
                  /\ fresh' = FALSE
    /\ updates' = updates + 1
    /\ returned' = NULL
    /\ UNCHANGED <<entity, now, readDays>>

AddPayment == AddPaymentOf(PaymentArgs(record))

\* The amounts of a payer who pays and never takes back: nothing, a part,
\* the invoice total, or a float.
NonNegativePaymentArgs(inv) ==
    { PyDecimal(0), PyDecimal(Money(50)), PyDecimal(inv.total_amount), PyFloat(Money(50)) }

AddNonNegativePayment == AddPaymentOf(NonNegativePaymentArgs(record))

\* Invoices with items on which calculate_totals has just been called.
TotalledInvoiceRecords ==
    { InvoiceTotalled([inv EXCEPT !.items = q]) :
        inv \in InvoiceRecords,
        q \in { <<Money(100)>>, <<Money(189)>>, <<Money(100), Money(189)>> } }

\* An item is added to the invoice.
AddItem ==
    /\ entity = "invoice"
    /\ Len(record.items) < MaxItems
    /\ \E t \in ItemTotals : record' = [record EXCEPT !.items = Append(@, t)]
    /\ op' = "update"
    /\ fresh' = FALSE
    /\ UNCHANGED <<entity, now, readDays, updates, arg, returned>>

\* The last item is removed from the invoice.
RemoveItem ==
    /\ entity = "invoice"
    /\ record.items # <<>>
    /\ record' = [record EXCEPT !.items = SubSeq(@, 1, Len(@) - 1)]
    /\ op' = "update"
    /\ fresh' = FALSE
    /\ UNCHANGED <<entity, now, readDays, updates, arg, returned>>

-----------------------------------------------------------------------------
(* Invoice.add_payment called by two callers on the same invoice *)

\* The two callers share one Invoice object and nothing orders their statements:
\* add_payment takes no lock.  Each read and each write of an attribute of the
\* invoice is one step.  The record is [invoice, before, callers]: the invoice,
\* the invoice as it was before the calls, and for each caller its amount, its
\* position in add_payment and the value it has read.
Callers == {"A", "B"}

SharedInvoiceTotals == {Money(100), Money(189)}

\* The amounts the callers pay: a part of a total or a whole total.
SharedPaymentAmounts == {Money(50), Money(100), Money(189)}

\* An invoice with one item, after calculate_totals, and two callers about to
\* execute line 126.
SharedInvoiceRecords ==
    { [invoice |-> inv, before |-> inv,
       callers |-> [c \in Callers |->
                      [pc |-> "load_paid", tmp |-> 0,
                       amount |-> IF c = "A" THEN a ELSE b]]] :
        inv \in { InvoiceTotalled([DefaultInvoice EXCEPT !.items = <<t>>]) :
                    t \in SharedInvoiceTotals },
        a \in SharedPaymentAmounts, b \in SharedPaymentAmounts }

\* Caller c moves to position pc having read tmp, and the invoice becomes inv.
SharedStep(c, pc, tmp, inv) ==
    /\ record' = [record EXCEPT !.invoice = inv,
                                !.callers[c].pc = pc,
                                !.callers[c].tmp = tmp]
    /\ op' = "step"
    /\ UNCHANGED <<entity, fresh, now, readDays, updates, arg, returned>>

\* Line 126, first half: self.paid_amount is read and amount added to it.
PayLoadPaid ==
    /\ entity = "shared_invoice"
    /\ \E c \in Callers :
          /\ record.callers[c].pc = "load_paid"
          /\ SharedStep(c, "store_paid",
                        record.invoice.paid_amount + record.callers[c].amount,
                        record.invoice)

\* Line 126, second half: the sum is assigned to self.paid_amount.
PayStorePaid ==
    /\ entity = "shared_invoice"
    /\ \E c \in Callers :
          /\ record.callers[c].pc = "store_paid"
          /\ SharedStep(c, "load_due", 0,
                        [record.invoice EXCEPT !.paid_amount = record.callers[c].tmp])

\* Line 127, first half: self.total_amount - self.paid_amount is evaluated.
PayLoadDue ==
    /\ entity = "shared_invoice"
    /\ \E c \in Callers :
          /\ record.callers[c].pc = "load_due"
          /\ SharedStep(c, "store_due",
                        DueAfterPayment(record.invoice, record.invoice.paid_amount),
                        record.invoice)

\* Line 127, second half: the difference is assigned to self.due_amount.
PayStoreDue ==
    /\ entity = "shared_invoice"
    /\ \E c \in Callers :
          /\ record.callers[c].pc = "store_due"
          /\ SharedStep(c, "test_due", 0,
                        [record.invoice EXCEPT !.due_amount = record.callers[c].tmp])

\* Line 130: if self.due_amount <= 0.
PayTestDue ==
    /\ entity = "shared_invoice"
    /\ \E c \in Callers :
          /\ record.callers[c].pc = "test_due"
          /\ SharedStep(c, IF record.invoice.due_amount <= 0 THEN "mark_paid" ELSE "test_paid",
                        0, record.invoice)

\* Lines 131-132.
PayMarkPaid ==
    /\ entity = "shared_invoice"
    /\ \E c \in Callers :
          /\ record.callers[c].pc = "mark_paid"
          /\ SharedStep(c, "done", 0,
                        [record.invoice EXCEPT !.status = "paid", !.paid_date = Some("now")])

\* Line 133: elif self.paid_amount > 0.
PayTestPaid ==
    /\ entity = "shared_invoice"
    /\ \E c \in Callers :
          /\ record.callers[c].pc = "test_paid"
          /\ SharedStep(c, IF record.invoice.paid_amount > 0 THEN "mark_partial" ELSE "done",
                        0, record.invoice)

\* Line 134.
PayMarkPartial ==
    /\ entity = "shared_invoice"
    /\ \E c \in Callers :
          /\ record.callers[c].pc = "mark_partial"
          /\ SharedStep(c, "done", 0,
                        [record.invoice EXCEPT !.status = "partially_paid"])

-----------------------------------------------------------------------------
(* Payment.calculate_net_amount *)

\* Variant: the gateway fee is added instead of deducted.
NetAmountFeeAdded(p) == p.amount + OrZero(p.gateway_fee)

\* Line 251.
NetAmount(p) == p.amount - OrZero(p.gateway_fee)

PaymentRecords ==
    { [amount |-> a, gateway_fee |-> f, net_amount |-> NULL] :
        a \in {Money(50), Money(100)}, f \in {NULL, Some(0), Some(Money(3))} }

CalculateNetAmount ==
    /\ entity = "payment"
    /\ record' = [record EXCEPT !.net_amount = Some(NetAmount(record))]
    /\ returned' = record'.net_amount
    /\ op' = CallLabel(fresh)
    /\ fresh' = TRUE
    /\ UNCHANGED <<entity, now, readDays, updates, arg>>

\* The gateway reports its fee.
SetGatewayFee ==
    /\ entity = "payment"
    /\ updates < MaxUpdates
    /\ \E f \in {NULL, Some(0), Some(Money(3))} :
          f # record.gateway_fee /\ record' = [record EXCEPT !.gateway_fee = f]
    /\ updates' = updates + 1
    /\ op' = "update"
    /\ fresh' = FALSE
    /\ UNCHANGED <<entity, now, readDays, arg, returned>>

-----------------------------------------------------------------------------
(* Opportunity.calculate_weighted_amount *)

\* Lines 115-118.  probability / 100 is a float, and Decimal * float raises TypeError.
WeightedAmount(o) ==
    IF o.amount.v # 0 /\ o.probability # 0
    THEN IF o.amount.ty = "Decimal" THEN TypeError
         ELSE [ty |-> "float", v |-> (o.amount.v * o.probability) \div 100]
    ELSE PyInt(0)

Probabilities == {0, 50, 100}

OpportunityRecords ==
    { [amount |-> a, probability |-> p, weighted_amount |-> NULL] :
        a \in {PyDecimal(0), PyDecimal(1000000), PyFloat(1000000)}, p \in Probabilities }

CalculateWeightedAmount ==
    /\ entity = "opportunity"
    /\ IF WeightedAmount(record).ty = "TypeError"
       THEN /\ op' = "raise"
            /\ UNCHANGED <<record, fresh, returned>>
       ELSE /\ record' = [record EXCEPT !.weighted_amount = Some(WeightedAmount(record))]
            /\ returned' = record'.weighted_amount
            /\ op' = CallLabel(fresh)
            /\ fresh' = TRUE
    /\ UNCHANGED <<entity, now, readDays, updates, arg>>

\* The sales stage changes the probability.
SetProbability ==
    /\ entity = "opportunity"
    /\ updates < MaxUpdates
    /\ \E p \in Probabilities :
          p # record.probability /\ record' = [record EXCEPT !.probability = p]
    /\ updates' = updates + 1
    /\ op' = "update"
    /\ fresh' = FALSE
    /\ UNCHANGED <<entity, now, readDays, arg, returned>>

-----------------------------------------------------------------------------
(* PricingTier.calculate_price *)

\* Lines 238-247: NULL is the None returned outside the tier.
TierPrice(t, q) ==
    IF Truthy(t.max_quantity) /\ q > Val(t.max_quantity) THEN NULL
    ELSE IF q < t.min_quantity THEN NULL
    ELSE Some(q * t.unit_price + OrZero(t.setup_fee))

TierRecords ==
    { [min_quantity |-> mn, max_quantity |-> mx, unit_price |-> Money(10), setup_fee |-> sf] :
        mn \in {1, 2}, mx \in {NULL, Some(0), Some(3)}, sf \in {NULL, Some(0), Some(Money(5))} }

CalculatePrice ==
    /\ entity = "tier"
    /\ \E q \in 0..MaxTierQuantity :
          /\ arg' = Some(q)
          /\ returned' = TierPrice(record, q)
          /\ fresh' = TRUE
    /\ op' = CallLabel(fresh)
    /\ UNCHANGED <<entity, now, readDays, updates, record>>

-----------------------------------------------------------------------------
(* add_tag / remove_tag and the same idiom add_feature, add_competitor,
   add_permission on the JSONB list columns *)

\* Python's `x in q` on a list.
InList(x, q) == \E i \in 1..Len(q) : q[i] = x

\* Variant: a new tag is put in front of the list.
TagPrepended(q, tag) == IF InList(tag, q) THEN q ELSE <<tag>> \o q

\* Lines 205-206: if tag not in self.tags: self.tags = self.tags + [tag].
TagAdded(q, tag) == IF InList(tag, q) THEN q ELSE q \o <<tag>>

\* Variant: the head of the list is taken out, whatever it is.
RemoveHead(q, x) == Tail(q)

\* list.remove: the first occurrence is taken out.
RemoveFirst(q, x) ==
    LET i == CHOOSE k \in 1..Len(q) : q[k] = x /\ \A j \in 1..(k - 1) : q[j] # x
    IN  SubSeq(q, 1, i - 1) \o SubSeq(q, i + 1, Len(q))

\* Lines 210-213.
TagRemoved(q, tag) == IF InList(tag, q) THEN RemoveFirst(q, tag) ELSE q

Tags == {"vip", "new", "eu"}

\* The column is nullable: a record holds no list (NULL) or a list, which
\* nothing keeps free of duplicates.
TagRecords ==
    { [tags |-> q] :
        q \in { NULL, Some(<<>>), Some(<<"vip">>), Some(<<"vip", "new">>),
                Some(<<"new", "vip">>), Some(<<"vip", "vip">>) } }

\* `tag not in None` raises TypeError.
AddTag ==
    /\ entity = "tags"
    /\ updates < MaxUpdates
    /\ \E tag \in Tags :
          /\ arg' = Some(tag)
          /\ IF record.tags = NULL
             THEN op' = "raise" /\ UNCHANGED record
             ELSE /\ record' = [record EXCEPT !.tags = Some(TagAdded(Val(@), tag))]
                  /\ op' = "add"
    /\ updates' = updates + 1
    /\ UNCHANGED <<entity, fresh, now, readDays, returned>>

RemoveTag ==
    /\ entity = "tags"
    /\ updates < MaxUpdates
    /\ \E tag \in Tags :
          /\ arg' = Some(tag)
          /\ IF record.tags = NULL
             THEN op' = "raise" /\ UNCHANGED record
             ELSE /\ record' = [record EXCEPT !.tags = Some(TagRemoved(Val(@), tag))]
                  /\ op' = "remove"
    /\ updates' = updates + 1
    /\ UNCHANGED <<entity, fresh, now, readDays, returned>>

-----------------------------------------------------------------------------
(* core/database.py: the session generators get_async_session and
   get_sync_session, each driven by a consumer that finishes or raises *)

\* Sessions handed out in one behaviour.
MaxSessions == 2

SessionKinds == {"async", "sync"}

\* What a consumer may raise while it holds the session.  ValueError and
\* HTTPException derive from Exception; asyncio.CancelledError and
\* KeyboardInterrupt derive from BaseException only.
ConsumerErrors == {"ValueError", "HTTPException", "CancelledError", "KeyboardInterrupt"}

\* `except Exception` catches e.
IsException(e) ==
    e \in {"ValueError", "HTTPException", "AttributeError", "ServiceError", "DatabaseException"}

\* A generator not started yet: calls lists the methods called on its session,
\* thrown is what the consumer raised, outcome how the generator ended.
NewSession(kind) ==
    [kind |-> kind, pc |-> "new", calls |-> <<>>, thrown |-> NULL, outcome |-> NULL]

\* Leaving `async with AsyncSessionLocal() as session` (line 79) runs
\* AsyncSession.__aexit__, which closes the session; get_sync_session holds
\* its session in a plain variable (line 92).
ContextExit(kind) == IF kind = "async" THEN <<"close">> ELSE <<>>

\* Lines 79-81 / 92-94: the session is created and yielded.
SessionYielded(s) == [s EXCEPT !.pc = "yielded"]

\* The consumer finished: the generator is resumed, runs finally and ends.
SessionFinished(s) ==
    [s EXCEPT !.pc = "done",
              !.calls = @ \o <<"close">> \o ContextExit(s.kind),
              !.outcome = Some("return")]

\* Variant: the handler closes the session and rolls back afterwards.
SessionThrownCloseFirst(s, e) ==
    IF IsException(e)
    THEN [s EXCEPT !.pc = "done",
                   !.thrown = Some(e),
                   !.calls = @ \o <<"close", "rollback">> \o ContextExit(s.kind),
                   !.outcome = Some("DatabaseException")]
    ELSE [s EXCEPT !.pc = "done",
                   !.thrown = Some(e),
                   !.calls = @ \o <<"close">> \o ContextExit(s.kind),
                   !.outcome = Some(e)]

\* The consumer raised e, which is thrown into the generator at the yield:
\* `except Exception` rolls back and raises DatabaseException (lines 82-85 /
\* 95-98); any other exception passes it by; finally closes (86-87 / 99-100).
SessionThrown(s, e) ==
    IF IsException(e)
    THEN [s EXCEPT !.pc = "done",
                   !.thrown = Some(e),
                   !.calls = @ \o <<"rollback", "close">> \o ContextExit(s.kind),
                   !.outcome = Some("DatabaseException")]
    ELSE [s EXCEPT !.pc = "done",
                   !.thrown = Some(e),
                   !.calls = @ \o <<"close">> \o ContextExit(s.kind),
                   !.outcome = Some(e)]

\* The generators of a behaviour, each of either kind.
SessionRecords ==
    { [pool |-> [i \in 1..MaxSessions |-> NewSession(k[i])]] :
        k \in [1..MaxSessions -> SessionKinds] }

\* A consumer asks for a session.
SessionStart ==
    /\ entity = "session"
    /\ \E i \in 1..MaxSessions :
          /\ record.pool[i].pc = "new"
          /\ record' = [record EXCEPT !.pool[i] = SessionYielded(@)]
          /\ arg' = Some(i)
    /\ op' = "open"
    /\ UNCHANGED <<entity, fresh, now, readDays, updates, returned>>

\* A consumer finishes with its session.
ConsumerFinishes ==
    /\ entity = "session"
    /\ \E i \in 1..MaxSessions :
          /\ record.pool[i].pc = "yielded"
          /\ record' = [record EXCEPT !.pool[i] = SessionFinished(@)]
          /\ arg' = Some(i)
    /\ op' = "finish"
    /\ UNCHANGED <<entity, fresh, now, readDays, updates, returned>>

\* A consumer raises while it holds its session.
ConsumerRaises ==
    /\ entity = "session"
    /\ \E i \in 1..MaxSessions, e \in ConsumerErrors :
          /\ record.pool[i].pc = "yielded"
          /\ record' = [record EXCEPT !.pool[i] = SessionThrown(@, e)]
          /\ arg' = Some(i)
    /\ op' = "throw"
    /\ UNCHANGED <<entity, fresh, now, readDays, updates, returned>>

-----------------------------------------------------------------------------
(* api/v1/endpoints/customers.py: GET / (list_customers), with its session
   dependency and the exception handlers of main.py *)

\* Python truth of an optional string: None and "" are false.
TruthyStr(o) == o # NULL /\ Val(o) # ""

\* Lines 38-42.
FiltersOf(r) ==
    (IF TruthyStr(r.status) THEN {"status"} ELSE {})
      \cup (IF TruthyStr(r.segment_id) THEN {"segment_id"} ELSE {})

NoResponse == [code |-> 0, detail |-> NULL, error |-> NULL, message |-> NULL]

\* Lines 58-63, entered when the service call of line 44 raised.  Inside the
\* function `status` is the query parameter of line 28, not the fastapi.status
\* module imported at line 6: it is None or a str, and evaluating
\* status.HTTP_500_INTERNAL_SERVER_ERROR (line 61) raises AttributeError
\* before HTTPException is constructed.
ListCustomersRaised(r) ==
    IF r.status = NULL \/ Val(r.status) \in STRING
    THEN "AttributeError"
    ELSE "HTTPException"

\* A request: the query parameters, whether the customer service fails, the
\* session of Depends(get_async_session), the exception in flight and the
\* response.
RequestRecords ==
    { [search |-> se, status |-> st, segment_id |-> sg, service |-> sv,
       pc |-> "new", filters |-> {}, session |-> NewSession("async"),
       raised |-> NULL, response |-> NoResponse] :
        se \in {NULL, Some("acme")},
        st \in {NULL, Some(""), Some("active")},
        sg \in {NULL, Some("s1")},
        sv \in {"ok", "fails"} }

\* The dependency is resolved: the session generator runs to its yield.
RequestStart ==
    /\ entity = "request"
    /\ record.pc = "new"
    /\ record' = [record EXCEPT !.session = SessionYielded(@), !.pc = "endpoint"]
    /\ op' = "open"
    /\ UNCHANGED <<entity, fresh, now, readDays, updates, arg, returned>>

\* Lines 35-63: the body of list_customers.
ListCustomers ==
    /\ entity = "request"
    /\ record.pc = "endpoint"
    /\ record' = [record EXCEPT
                    !.filters = FiltersOf(record),
                    !.raised = IF record.service = "ok" THEN NULL
                               ELSE Some(ListCustomersRaised(record)),
                    !.pc = "teardown"]
    /\ op' = "serve"
    /\ UNCHANGED <<entity, fresh, now, readDays, updates, arg, returned>>

\* The endpoint has ended and the dependency is given back.  An exception of
\* the endpoint is thrown into the generator, which replaces it by the one
\* it raises itself; a framework that ends its dependencies outside the
\* failing call instead resumes the generator normally.
RequestTeardown ==
    /\ entity = "request"
    /\ record.pc = "teardown"
    /\ \/ /\ record.raised = NULL
          /\ record' = [record EXCEPT !.session = SessionFinished(@), !.pc = "handler"]
       \/ /\ record.raised # NULL
          /\ record' = [record EXCEPT
                          !.session = SessionThrown(@, Val(record.raised)),
                          !.raised = SessionThrown(record.session, Val(record.raised)).outcome,
                          !.pc = "handler"]
       \/ /\ record.raised # NULL
          /\ record' = [record EXCEPT !.session = SessionFinished(@), !.pc = "handler"]
    /\ op' = "finish"
    /\ UNCHANGED <<entity, fresh, now, readDays, updates, arg, returned>>

\* main.py 87-123 and the framework's handler of HTTPException: the response
\* to the exception e, NULL if the endpoint returned.
ResponseTo(e) ==
    IF e = NULL
    THEN [code |-> 200, detail |-> NULL, error |-> NULL, message |-> NULL]
    ELSE IF Val(e) = "DatabaseException"
    THEN [code |-> 500, detail |-> NULL, error |-> Some("system_error"),
          message |-> Some("Database session error")]
    ELSE IF Val(e) = "HTTPException"
    THEN [code |-> 500, detail |-> Some("Failed to retrieve customers"),
          error |-> NULL, message |-> NULL]
    ELSE [code |-> 500, detail |-> NULL, error |-> Some("internal_server_error"),
          message |-> Some("An unexpected error occurred")]

\* The response is produced.
Respond ==
    /\ entity = "request"
    /\ record.pc = "handler"
    /\ record' = [record EXCEPT !.response = ResponseTo(record.raised), !.pc = "done"]
    /\ op' = "respond"
    /\ UNCHANGED <<entity, fresh, now, readDays, updates, arg, returned>>

-----------------------------------------------------------------------------
\* Time passes: the clock of datetime.utcnow() advances by half a day.
Tick ==
    /\ entity \in {"lead", "customer"}
    /\ now < MaxTicks
    /\ now' = now + 1
    /\ op' = "tick"
    /\ UNCHANGED <<entity, fresh, readDays, updates, arg, returned, record>>

Entities ==
    {"lead", "customer", "campaign", "metric", "item", "invoice", "shared_invoice",
     "payment", "opportunity", "tier", "tags", "session", "request"}

\* The records a behaviour on entity class e may start from.
RecordsOf(e) ==
    CASE e = "lead" -> LeadRecords
      [] e = "customer" -> CustomerRecords
      [] e = "campaign" -> {DefaultCampaign}
      [] e = "metric" -> {DefaultMetric}
      [] e = "item" -> ItemRecords
      [] e = "invoice" -> InvoiceRecords
      [] e = "shared_invoice" -> SharedInvoiceRecords
      [] e = "payment" -> PaymentRecords
      [] e = "opportunity" -> OpportunityRecords
      [] e = "tier" -> TierRecords
      [] e = "tags" -> TagRecords
      [] e = "session" -> SessionRecords
      [] e = "request" -> RequestRecords

InitFor(e) ==
    /\ entity = e
    /\ op = "init"
    /\ fresh = FALSE
    /\ now = 0
    /\ readDays = NULL
    /\ updates = 0
    /\ arg = NULL
    /\ returned = NULL
    /\ record \in RecordsOf(e)

Init == \E e \in Entities : InitFor(e)

NextLead == CalculateLeadScore \/ Tick
NextCustomer == CalculateHealthScore \/ Tick
NextCampaign == CalculateMetrics \/ SetCampaignCounter \/ CalculateRates \/ SetMetricCounter
NextItem == CalculateItemTotal \/ SetItemField
NextInvoice == CalculateTotals \/ AddPayment \/ AddItem \/ RemoveItem
NextSharedInvoice ==
    \/ PayLoadPaid \/ PayStorePaid \/ PayLoadDue \/ PayStoreDue
    \/ PayTestDue \/ PayMarkPaid \/ PayTestPaid \/ PayMarkPartial

Next ==
    \/ CalculateLeadScore
    \/ CalculateHealthScore
    \/ CalculateMetrics
    \/ SetCampaignCounter
    \/ CalculateRates
    \/ SetMetricCounter
    \/ CalculateItemTotal
    \/ SetItemField
    \/ CalculateTotals
    \/ AddPayment
    \/ AddItem
    \/ RemoveItem
    \/ PayLoadPaid
    \/ PayStorePaid
    \/ PayLoadDue
    \/ PayStoreDue
    \/ PayTestDue
    \/ PayMarkPaid
    \/ PayTestPaid
    \/ PayMarkPartial
    \/ CalculateNetAmount
    \/ SetGatewayFee
    \/ CalculateWeightedAmount
    \/ SetProbability
    \/ CalculatePrice
    \/ AddTag
    \/ RemoveTag
    \/ SessionStart
    \/ ConsumerFinishes
    \/ ConsumerRaises
    \/ RequestStart
    \/ ListCustomers
    \/ RequestTeardown
    \/ Respond
    \/ Tick

Spec == Init /\ [][Next]_vars

InitLead == InitFor("lead")
SpecLead == InitLead /\ [][NextLead]_vars

InitCustomer == InitFor("customer")
SpecCustomer == InitCustomer /\ [][NextCustomer]_vars

InitCampaign == InitFor("campaign") \/ InitFor("metric")
SpecCampaign == InitCampaign /\ [][NextCampaign]_vars

InitItem == InitFor("item")
SpecItem == InitItem /\ [][NextItem]_vars

InitInvoice == InitFor("invoice")
SpecInvoice == InitInvoice /\ [][NextInvoice]_vars

\* An invoice that, once totalled, only receives payments of non-negative
\* amounts: its items, and so its total_amount, do not change any more.
InitPaymentsOnly ==
    /\ entity = "invoice"
    /\ op = "calc"
    /\ fresh = TRUE
    /\ now = 0
    /\ readDays = NULL
    /\ updates = 0
    /\ arg = NULL
    /\ returned = NULL
    /\ record \in TotalledInvoiceRecords
NextPaymentsOnly == AddNonNegativePayment
SpecPaymentsOnly == InitPaymentsOnly /\ [][NextPaymentsOnly]_vars

NextPayment == CalculateNetAmount \/ SetGatewayFee
InitPayment == InitFor("payment")
SpecPayment == InitPayment /\ [][NextPayment]_vars

NextOpportunity == CalculateWeightedAmount \/ SetProbability
InitOpportunity == InitFor("opportunity")
SpecOpportunity == InitOpportunity /\ [][NextOpportunity]_vars

NextTier == CalculatePrice
InitTier == InitFor("tier")
SpecTier == InitTier /\ [][NextTier]_vars

NextSession == SessionStart \/ ConsumerFinishes \/ ConsumerRaises
InitSession == InitFor("session")
SpecSession == InitSession /\ [][NextSession]_vars

NextRequest == RequestStart \/ ListCustomers \/ RequestTeardown \/ Respond
InitRequest == InitFor("request")
SpecRequest == InitRequest /\ [][NextRequest]_vars

NextTags == AddTag \/ RemoveTag
InitTags == InitFor("tags")
SpecTags == InitTags /\ [][NextTags]_vars

InitSharedInvoice == InitFor("shared_invoice")
SpecSharedInvoice == InitSharedInvoice /\ [][NextSharedInvoice]_vars
-----------------------------------------------------------------------------
(* Properties *)

\* C1: after calculate_lead_score has completed, demographic_score <= 30,
\* behavioral_score <= 40, engagement_score <= 30, and lead_score is the sum of
\* the three and at most 100.
C1_LeadScoreBounds ==
    (entity = "lead" /\ Called) =>
        /\ record.demographic_score <= 30
        /\ record.behavioral_score <= 40
        /\ record.engagement_score <= 30
        /\ record.lead_score
             = record.demographic_score + record.behavioral_score + record.engagement_score
        /\ record.lead_score <= 100

\* A lead that meets every top threshold has been scored: 30 + 40 + 30.
C1_Witness ==
    /\ entity = "lead" /\ Called
    /\ record.demographic_score = 30 /\ record.behavioral_score = 40
    /\ record.engagement_score = 30 /\ record.lead_score = 100

\* C2: the quality calculate_lead_score assigns depends on the resulting
\* lead_score alone: hot from 80, warm from 50 to 79, cold below 50; the tiers
\* rise with the score and change exactly at 50 and 80.
C2_QualityTiers ==
    /\ (entity = "lead" /\ Called) =>
          record.quality = Some(IF record.lead_score >= 80 THEN "hot"
                              ELSE IF record.lead_score >= 50 THEN "warm"
                              ELSE "cold")
    /\ LeadQualityOf(79) = "warm" /\ LeadQualityOf(80) = "hot"
    /\ LeadQualityOf(49) = "cold" /\ LeadQualityOf(50) = "warm"

\* A lead scored exactly 80 is hot.
C2_Witness ==
    /\ entity = "lead" /\ Called
    /\ record.lead_score = 80 /\ record.quality = Some("hot")

\* The rates of a record r whose denominator counter is zero are null.
ZeroDenominatorRatesNull(r) ==
    /\ r.sent_count = 0 => r.delivery_rate = NULL
    /\ r.delivered_count = 0 => r.open_rate = NULL
    /\ r.opened_count = 0 => r.click_rate = NULL
    /\ r.clicked_count = 0 => r.conversion_rate = NULL

\* C3: after every call of calculate_metrics or calculate_rates, a rate whose
\* denominator counter is zero is null, whatever it was before the call.
C3_ZeroDenominatorNull ==
    /\ (entity = "campaign" /\ Called) => ZeroDenominatorRatesNull(record)
    /\ (entity = "metric" /\ Called) => ZeroDenominatorRatesNull(record)

\* C4: in every state reached by calculate_totals and add_payment calls,
\* due_amount = total_amount - paid_amount.
C4_DueIsTotalMinusPaid ==
    entity = "invoice" =>
        record.due_amount = record.total_amount - record.paid_amount

\* A payment has been added to an invoice with items, and part of it is still due.
C4_Witness ==
    /\ entity = "invoice" /\ op = "pay"
    /\ record.paid_amount > 0 /\ record.total_amount > record.paid_amount
    /\ record.due_amount > 0

\* C5: add_payment(amount) adds amount to paid_amount, recomputes due_amount,
\* then: due_amount <= 0 makes the invoice paid and sets paid_date; otherwise
\* paid_amount > 0 makes it partially_paid (entered exactly when
\* 0 < paid_amount < total_amount); otherwise the status is left as it was.
C5_AddPaymentRule ==
    [][ op' = "pay" =>
          /\ record'.paid_amount = record.paid_amount + Val(arg').v
          /\ record'.due_amount = record.total_amount - record'.paid_amount
          /\ record'.total_amount = record.total_amount
          /\ IF record'.due_amount <= 0
             THEN record'.status = "paid" /\ record'.paid_date # NULL
             ELSE IF record'.paid_amount > 0
             THEN record'.status = "partially_paid"
             ELSE record'.status = record.status
          /\ (0 < record'.paid_amount /\ record'.paid_amount < record'.total_amount)
                => record'.status = "partially_paid"
          /\ (record'.status = "partially_paid" /\ record.status # "partially_paid")
                => (0 < record'.paid_amount /\ record'.paid_amount < record'.total_amount)
      ]_vars

\* A payment has left the invoice partially paid.
C5_Witness ==
    /\ entity = "invoice" /\ op = "pay"
    /\ record.status = "partially_paid"
    /\ 0 < record.paid_amount /\ record.paid_amount < record.total_amount
    /\ record.paid_date = NULL

\* C6, as claimed: after add_payment with an amount equal to total_amount,
\* due_amount is exactly 0 and the status is paid, for any invoice.
C6_PayTotalSettles ==
    [][ (op' = "pay" /\ Val(arg').v = record.total_amount) =>
          (record'.due_amount = 0 /\ record'.status = "paid")
      ]_vars

\* C6, amended: the same for an invoice whose paid_amount is 0 before the call.
C6_PayTotalSettlesUnpaid ==
    [][ (op' = "pay" /\ Val(arg').v = record.total_amount /\ record.paid_amount = 0) =>
          (record'.due_amount = 0 /\ record'.status = "paid")
      ]_vars

\* The whole total of an unpaid invoice with items has been paid in one payment.
C6_Witness ==
    /\ entity = "invoice" /\ op = "pay" /\ updates = 1
    /\ record.total_amount > 0
    /\ Val(arg).v = record.total_amount
    /\ record.paid_amount = record.total_amount
    /\ record.due_amount = 0 /\ record.status = "paid"

\* C7: after calculate_total, whatever was updated and calculated before,
\* discount_amount = quantity * unit_price * discount_percent / 100 when
\* discount_percent is set and not zero and 0 otherwise, tax_amount =
\* (quantity * unit_price - discount_amount) * tax_rate / 100 when tax_rate is
\* set and not zero and 0 otherwise, and total_amount is the subtotal less the
\* discount plus the tax.  (An unset amount is read as 0.)
C7_ItemTotalFormula ==
    (entity = "item" /\ Called) =>
        LET sub == Money(record.quantity * record.unit_price)
            disc == IF Truthy(record.discount_percent)
                    THEN (sub * Val(record.discount_percent)) \div 100 ELSE 0
            tax == IF Truthy(record.tax_rate)
                   THEN ((sub - disc) * Val(record.tax_rate)) \div 100 ELSE 0
        IN  /\ OrZero(record.discount_amount) = disc
            /\ OrZero(record.tax_amount) = tax
            /\ record.total_amount = Some(sub - disc + tax)

\* C8: calculate_health_score returns a value in [0, 100] for every customer.
C8_HealthInRange ==
    (entity = "customer" /\ Called) =>
        (0 <= Val(returned).v /\ Val(returned).v <= 100 * 1000)

\* A rate is null or a fraction between 0 and 100.
RateInRange(r) == r = NULL \/ (0 <= Val(r).num /\ Val(r).num <= 100 * Val(r).den)

\* C9, as claimed: after calculate_metrics / calculate_rates on non-negative
\* counters every non-null rate lies in [0, 100].
C9_RatesInRange ==
    /\ (entity = "campaign" /\ Called) =>
          /\ RateInRange(record.delivery_rate) /\ RateInRange(record.open_rate)
          /\ RateInRange(record.click_rate) /\ RateInRange(record.conversion_rate)
    /\ (entity = "metric" /\ Called) =>
          /\ RateInRange(record.delivery_rate) /\ RateInRange(record.open_rate)
          /\ RateInRange(record.click_rate) /\ RateInRange(record.conversion_rate)

\* The rate of a stage whose denominator counter d is positive and whose
\* numerator counter n does not exceed d is set and lies in [0, 100].
FunnelRateInRange(n, d, r) == (d > 0 /\ n <= d) => (r # NULL /\ RateInRange(r))

FunnelRatesInRange(r) ==
    /\ FunnelRateInRange(r.delivered_count, r.sent_count, r.delivery_rate)
    /\ FunnelRateInRange(r.opened_count, r.delivered_count, r.open_rate)
    /\ FunnelRateInRange(r.clicked_count, r.opened_count, r.click_rate)
    /\ FunnelRateInRange(r.converted_count, r.clicked_count, r.conversion_rate)

\* C9, amended: after calculate_metrics / calculate_rates every rate whose
\* denominator counter is positive and whose numerator counter does not exceed
\* it lies in [0, 100].
C9_FunnelRatesInRange ==
    /\ (entity = "campaign" /\ Called) => FunnelRatesInRange(record)
    /\ (entity = "metric" /\ Called) => FunnelRatesInRange(record)

\* Half of what was sent was delivered: delivery_rate is 50.
C9_Witness ==
    /\ entity = "metric" /\ Called
    /\ record.sent_count = 2 /\ record.delivered_count = 1
    /\ record.delivery_rate = Some([num |-> 50, den |-> 1])

\* C10, as claimed: a calculator called again with unchanged input fields (and
\* the same argument) leaves the records and the returned value as the first
\* call left them.
C10_Idempotent ==
    [][ (fresh /\ op' = "recalc" /\ (entity = "tier" => arg' = arg)) =>
          (record' = record /\ returned' = returned)
      ]_vars

\* C10, amended: the same, provided the second call of calculate_lead_score or
\* calculate_health_score reads the same whole number of days since
\* last_contact_date as the first (the other calculators read no clock).
C10_IdempotentSameDay ==
    [][ (fresh /\ op' = "recalc" /\ (entity = "tier" => arg' = arg)
            /\ readDays' = readDays) =>
          (record' = record /\ returned' = returned)
      ]_vars

\* calculate_lead_score has been repeated on a lead with a contact date, with
\* half a day between the calls and the same number of whole days read.
C10_Witness ==
    /\ entity = "lead" /\ op = "recalc" /\ now = 1
    /\ readDays = Some(3)
    /\ record.lead_score > 0

\* The five values calculate_lead_score derives.
LeadOutputs(l) ==
    <<l.demographic_score, l.behavioral_score, l.engagement_score, l.lead_score, l.quality>>

\* C11, as claimed: the values calculate_lead_score derives depend on the input
\* fields alone: a call made at any other time of the clock would have derived
\* the values the completed call derived.
C11_PureOfInputFields ==
    (entity = "lead" /\ Called) =>
        \A c \in 0..MaxTicks : LeadOutputs(LeadScored(record, c)) = LeadOutputs(record)

\* C11, amended: a call made at a time that gives the same whole number of days
\* since last_contact_date (or on a lead without last_contact_date) would have
\* derived the values the completed call derived.
C11_PureOfInputFieldsAndAge ==
    (entity = "lead" /\ Called) =>
        \A c \in 0..MaxTicks :
            (record.last_contact_date = NULL
                \/ DaysSince(record.last_contact_date, c)
                     = DaysSince(record.last_contact_date, now))
            => LeadOutputs(LeadScored(record, c)) = LeadOutputs(record)

\* A lead contacted three days ago has been scored, and half a day earlier its
\* last contact was three whole days old as well.
C11_Witness ==
    /\ entity = "lead" /\ Called /\ now = 1
    /\ record.last_contact_date = Naive(-6)
    /\ readDays = Some(3) /\ DaysSince(record.last_contact_date, 0) = 3
    /\ record.engagement_score >= 10

\* C12, as claimed: no call of a calculator ends in an error.
C12_NoErrorOutcome == op # "raise"

\* Both callers have returned from add_payment.
BothPaid == \A c \in Callers : record.callers[c].pc = "done"

\* The invoice after add_payment(a) and then add_payment(b), one after the other.
PaidInTurn(inv, a, b) == InvoicePaid(InvoicePaid(inv, a), b)

\* C13: when two callers have run add_payment(a) and add_payment(b) on the same
\* invoice, in any interleaving of their reads and writes, paid_amount is the
\* initial paid_amount + a + b, due_amount = total_amount - paid_amount, and
\* the status is the one the two calls give when made one after the other.
C13_ConcurrentPaymentsKept ==
    (entity = "shared_invoice" /\ BothPaid) =>
        LET inv == record.invoice
            a == record.callers["A"].amount
            b == record.callers["B"].amount
        IN  /\ inv.paid_amount = record.before.paid_amount + a + b
            /\ inv.due_amount = inv.total_amount - inv.paid_amount
            /\ inv.status = PaidInTurn(record.before, a, b).status

\* The reference threshold tables of the lead score.
TableCompanySize(l) ==
    IF l.company_size = Some("Large") \/ l.company_size = Some("Enterprise") THEN 10
    ELSE IF l.company_size = Some("Medium") THEN 5 ELSE 0

TableRevenue(l) ==
    IF l.annual_revenue = NULL THEN 0
    ELSE IF Val(l.annual_revenue) > 1000000 THEN 10
    ELSE IF Val(l.annual_revenue) > 100000 THEN 5 ELSE 0

TableJobTitle(l) ==
    IF l.job_title # NULL /\ \E k \in TitleKeywords : Contains(k, Lower(Val(l.job_title)))
    THEN 10 ELSE 0

TableBehavioral(l) ==
    (IF l.website_visits > 10 THEN 15 ELSE IF l.website_visits > 5 THEN 10
     ELSE IF l.website_visits > 0 THEN 5 ELSE 0)
  + (IF l.email_opens > 5 THEN 10 ELSE IF l.email_opens > 2 THEN 5 ELSE 0)
  + (IF l.email_clicks > 3 THEN 15 ELSE IF l.email_clicks > 0 THEN 10 ELSE 0)

TableInteractions(l) ==
    IF l.total_interactions > 10 THEN 20 ELSE IF l.total_interactions > 5 THEN 15
    ELSE IF l.total_interactions > 0 THEN 10 ELSE 0

\* days is the whole number of days since last_contact_date, NULL if it is unset.
TableRecency(days) ==
    IF days = NULL THEN 0
    ELSE IF Val(days) <= 7 THEN 10
    ELSE IF Val(days) <= 30 THEN 5 ELSE 0

\* The sub-scores of a scored lead are those of the tables, capped at 30, 40
\* and 30, and a lead that meets every top threshold scores 100 and is hot.
LeadTablesHold ==
    (entity = "lead" /\ Called) =>
        /\ record.demographic_score
             = Min(TableCompanySize(record) + TableRevenue(record) + TableJobTitle(record), 30)
        /\ record.behavioral_score = Min(TableBehavioral(record), 40)
        /\ record.engagement_score
             = Min(TableInteractions(record) + TableRecency(readDays), 30)
        /\ (/\ TableCompanySize(record) = 10 /\ TableRevenue(record) = 10
            /\ TableJobTitle(record) = 10 /\ TableBehavioral(record) = 40
            /\ TableInteractions(record) = 20 /\ TableRecency(readDays) = 10)
           => (record.lead_score = 100 /\ record.quality = Some("hot"))

\* C14: calculate_lead_score, called on any lead of the declared domain,
\* computes the sub-scores by the reference threshold tables (it completes, and
\* the scores it stores are those of the tables).
C14_ThresholdTables ==
    /\ (entity = "lead" /\ op \in {"calc", "recalc", "raise"}) => op # "raise"
    /\ LeadTablesHold

\* The reference formula of the health score, in thousandths of a point:
\* min(100, E + S + R + V); days is the whole number of days since
\* last_contact_date, NULL if there is no contact date.
FormulaHealth(c, days) ==
    LET E == IF c.engagement_score = NULL THEN 0
             ELSE Min(Val(c.engagement_score) * 400, 40 * 1000)
        S == IF c.satisfaction_score = NULL THEN 0
             ELSE Val(c.satisfaction_score).v * 10 * 2
        R == IF days = NULL THEN 0
             ELSE IF Val(days) <= 30 THEN 20 * 1000
             ELSE IF Val(days) <= 90 THEN 10 * 1000 ELSE 0
        V == IF c.total_revenue = NULL THEN 0
             ELSE Min(Val(c.total_revenue), 20 * 1000)
    IN  Min(100 * 1000, E + S + R + V)

\* A completed calculate_health_score has returned the value of the formula.
HealthFormulaHolds ==
    (entity = "customer" /\ Called) =>
        Val(returned).v = FormulaHealth(record, readDays)

\* C15: calculate_health_score, called on a customer, returns
\* min(100, E + S + R + V).
C15_HealthFormula ==
    /\ (entity = "customer" /\ op \in {"calc", "recalc", "raise"}) => op # "raise"
    /\ HealthFormulaHolds

\* The sum of the first n elements of q.
RECURSIVE SumFirst(_, _)
SumFirst(q, n) == IF n = 0 THEN 0 ELSE SumFirst(q, n - 1) + q[n]

\* C16: after calculate_totals, subtotal is the sum of total_amount over the
\* current items, tax_amount = subtotal * tax_rate / 100 with the invoice-level
\* rate, total_amount = subtotal + tax_amount - discount_amount and
\* due_amount = total_amount - paid_amount.
C16_TotalsFormula ==
    (entity = "invoice" /\ Called) =>
        /\ record.subtotal = SumFirst(record.items, Len(record.items))
        /\ record.tax_amount * 100 = record.subtotal * record.tax_rate
        /\ record.total_amount
             = record.subtotal + record.tax_amount - record.discount_amount
        /\ record.due_amount = record.total_amount - record.paid_amount

\* One item totalling 189, tax_rate 8 % and no discount: tax 15.12, total 204.12.
C16_Witness ==
    /\ entity = "invoice" /\ Called
    /\ record.items = <<Money(189)>>
    /\ record.tax_rate = 8 /\ record.discount_amount = 0
    /\ record.tax_amount = 151200
    /\ record.total_amount = 2041200

\* No rate of the record r has been set yet.
NoRateSet(r) ==
    /\ r.delivery_rate = NULL /\ r.open_rate = NULL
    /\ r.click_rate = NULL /\ r.conversion_rate = NULL

\* The rate r is n / d * 100 if d is positive, and null otherwise.
IsFunnelRate(n, d, r) ==
    IF d > 0 THEN r # NULL /\ Val(r).num * d = n * 100 * Val(r).den
    ELSE r = NULL

\* C17: calculate_metrics / calculate_rates on a record none of whose rates has
\* been set makes each rate with a positive denominator numerator / denominator
\* * 100 against its predecessor stage, 0 for a zero numerator, and leaves the
\* others null; sent 1000, delivered 950, opened 0 gives 95, 0 and null.
C17_FreshRates ==
    [][ /\ (entity \in {"campaign", "metric"} /\ op' \in {"calc", "recalc"}
               /\ NoRateSet(record)) =>
            /\ IsFunnelRate(record.delivered_count, record.sent_count, record'.delivery_rate)
            /\ IsFunnelRate(record.opened_count, record.delivered_count, record'.open_rate)
            /\ IsFunnelRate(record.clicked_count, record.opened_count, record'.click_rate)
            /\ IsFunnelRate(record.converted_count, record.clicked_count,
                            record'.conversion_rate)
        /\ LET m == MetricRates([DefaultMetric EXCEPT !.sent_count = 1000,
                                                      !.delivered_count = 950])
               c == CampaignRates([DefaultCampaign EXCEPT !.sent_count = 1000,
                                                          !.delivered_count = 950])
           IN  /\ m.delivery_rate = Some([num |-> 95, den |-> 1])
               /\ m.open_rate = Some([num |-> 0, den |-> 1])
               /\ m.click_rate = NULL /\ m.conversion_rate = NULL
               /\ c = m
      ]_vars

\* On a new per-day record with sent 2, delivered 1 and opened 0 the first
\* calculate_rates has set delivery_rate 50 and open_rate 0 and left click_rate null.
C17_Witness ==
    /\ entity = "metric" /\ op = "calc" /\ updates = 2
    /\ record.sent_count = 2 /\ record.delivered_count = 1 /\ record.opened_count = 0
    /\ record.delivery_rate = Some([num |-> 50, den |-> 1])
    /\ record.open_rate = Some([num |-> 0, den |-> 1])
    /\ record.click_rate = NULL /\ record.conversion_rate = NULL

\* C18: calculate_price(quantity) returns null if quantity < min_quantity or
\* if max_quantity is set (to any value, 0 included) and quantity >
\* max_quantity, and otherwise quantity * unit_price + setup_fee, a null
\* setup_fee counting as 0.
C18_PriceRule ==
    (entity = "tier" /\ Called) =>
        LET q == Val(arg)
        IN  returned =
              IF q < record.min_quantity
                  \/ (record.max_quantity # NULL /\ q > Val(record.max_quantity))
              THEN NULL
              ELSE Some(q * record.unit_price
                          + (IF record.setup_fee = NULL THEN 0 ELSE Val(record.setup_fee)))

\* A completed calculate_weighted_amount has stored and returned
\* amount * probability / 100, which lies between 0 and amount.
WeightedFormulaHolds ==
    (entity = "opportunity" /\ Called) =>
        /\ returned = record.weighted_amount
        /\ Val(returned).v * 100 = record.amount.v * record.probability
        /\ 0 <= Val(returned).v /\ Val(returned).v <= record.amount.v

\* C19: calculate_weighted_amount, called on an opportunity, sets and returns
\* weighted_amount = amount * probability / 100 (0 when either is absent),
\* and 0 <= weighted_amount <= amount.
C19_WeightedAmount ==
    /\ (entity = "opportunity" /\ op \in {"calc", "recalc", "raise"}) => op # "raise"
    /\ WeightedFormulaHolds

\* C20: add_tag of a tag that is in the list leaves the list unchanged, add_tag
\* of a tag that is not in it appends the tag after the existing elements in
\* their order, and add_tag(x) made twice leaves the list of the first.
C20_AddTagIdempotent ==
    [][ op' = "add" =>
          LET q == Val(record.tags)
              tag == Val(arg')
          IN  /\ InList(tag, q) => record'.tags = record.tags
              /\ ~InList(tag, q) => record'.tags = Some(Append(q, tag))
              /\ (op = "add" /\ arg = arg') => record'.tags = record.tags
      ]_vars

\* add_tag("vip") has been made, as the first operation, on the list
\* ["vip", "new"], which held "vip" already and is unchanged.
C20_Witness ==
    /\ entity = "tags" /\ op = "add" /\ arg = Some("vip") /\ updates = 1
    /\ record.tags = Some(<<"vip", "new">>)

\* The fields of a lead that calculate_lead_score does not derive.
LeadOtherFields(l) ==
    <<l.company_size, l.annual_revenue, l.job_title, l.website_visits, l.email_opens,
      l.email_clicks, l.total_interactions, l.last_contact_date, l.status>>

\* C21: a call of calculate_lead_score changes no field of the lead other than
\* the five derived ones, and a call of calculate_health_score changes no field
\* of the customer.
C21_FrameOfScores ==
    [][ /\ (entity = "lead" /\ op' \in {"calc", "recalc", "raise"}) =>
              LeadOtherFields(record') = LeadOtherFields(record)
        /\ (entity = "customer" /\ op' \in {"calc", "recalc", "raise"}) =>
              record' = record
      ]_vars

\* A new lead has been scored hot: its scores are set, its status is still new.
C21_Witness ==
    /\ entity = "lead" /\ Called
    /\ record.quality = Some("hot") /\ record.lead_score >= 80
    /\ record.status = "new"
    /\ record.job_title = Some(<<"C", "T", "O">>) /\ record.website_visits = 11

\* C22: calculate_net_amount sets and returns net_amount = amount -
\* gateway_fee, a null gateway_fee counting as 0; with gateway_fee >= 0 the
\* result does not exceed amount.
C22_NetAmount ==
    (entity = "payment" /\ Called) =>
        LET fee == IF record.gateway_fee = NULL THEN 0 ELSE Val(record.gateway_fee)
        IN  /\ record.net_amount = Some(record.amount - fee)
            /\ returned = record.net_amount
            /\ fee >= 0 => Val(record.net_amount) <= record.amount

\* A payment of 100 with a gateway fee of 3 nets 97.
C22_Witness ==
    /\ entity = "payment" /\ Called
    /\ record.amount = Money(100) /\ record.gateway_fee = Some(Money(3))
    /\ record.net_amount = Some(Money(97)) /\ returned = Some(Money(97))

\* C23: in every state reached by item changes, calculate_totals and
\* add_payment calls, an invoice whose status is paid has due_amount <= 0.
C23_PaidMeansNothingDue ==
    entity = "invoice" => (record.status = "paid" => record.due_amount <= 0)

NoDuplicates(q) == \A i, j \in 1..Len(q) : q[i] = q[j] => i = j

\* C25: add_tag and remove_tag keep a tag list without duplicates free of
\* duplicates; after remove_tag(t) on such a list t is not in it; remove_tag
\* of a tag that is not in the list leaves the list as it was.
C25_TagListKeptDuplicateFree ==
    [][ (entity = "tags" /\ op' \in {"add", "remove"}) =>
            LET q == Val(record.tags)
                r == Val(record'.tags)
                t == Val(arg')
            IN  /\ NoDuplicates(q) => NoDuplicates(r)
                /\ (op' = "remove" /\ NoDuplicates(q)) => ~InList(t, r)
                /\ (op' = "remove" /\ ~InList(t, q)) => r = q ]_vars

\* "vip" has just been removed from a two-tag list that held it once.
C25_Witness ==
    /\ entity = "tags" /\ op = "remove" /\ updates = 1
    /\ arg = Some("vip") /\ record.tags = Some(<<"new">>)

QualityRank(q) == IF q = Some("hot") THEN 2 ELSE IF q = Some("warm") THEN 1 ELSE 0

\* The scored lead l is scored no lower, and ranked no lower, when it is
\* scored at the same clock as the lead m.
ScoredNoLower(l, m, clock) ==
    LET n == LeadScored(m, clock)
    IN  /\ n.lead_score >= l.lead_score
        /\ QualityRank(n.quality) >= QualityRank(l.quality)

\* Values an activity counter may be raised to.
RaisedCounterValues(n) == (n + 1)..12

\* C26: at a fixed clock and with the other fields fixed, raising
\* website_visits, email_opens, email_clicks or total_interactions never
\* lowers the lead_score calculate_lead_score stores nor the quality.
C26_ScoreMonotoneInActivity ==
    (entity = "lead" /\ Called) =>
        /\ record = LeadScored(record, now)
        /\ \A v \in RaisedCounterValues(record.website_visits) :
              ScoredNoLower(record, [record EXCEPT !.website_visits = v], now)
        /\ \A v \in RaisedCounterValues(record.email_opens) :
              ScoredNoLower(record, [record EXCEPT !.email_opens = v], now)
        /\ \A v \in RaisedCounterValues(record.email_clicks) :
              ScoredNoLower(record, [record EXCEPT !.email_clicks = v], now)
        /\ \A v \in RaisedCounterValues(record.total_interactions) :
              ScoredNoLower(record, [record EXCEPT !.total_interactions = v], now)

\* A warm lead scored 75 with 10 website visits would be hot with 11.
C26_Witness ==
    /\ entity = "lead" /\ Called
    /\ record.website_visits = 10 /\ record.lead_score = 75 /\ record.quality = Some("warm")
    /\ LeadScored([record EXCEPT !.website_visits = 11], now).lead_score = 80
    /\ LeadScored([record EXCEPT !.website_visits = 11], now).quality = Some("hot")

\* C27: every lead_score is a multiple of 5 between 0 and 100; the raw
\* sub-scores never exceed 30, 40 and 30, so the min() caps and min(total, 100)
\* store the raw values unchanged.
C27_ScoreGrid ==
    entity = "lead" =>
        /\ record.lead_score \in 0..100
        /\ record.lead_score % 5 = 0
        /\ DemographicRaw(record) <= 30
        /\ BehavioralRaw(record) <= 40
        /\ Called =>
              /\ EngagementRaw(record, now) <= 30
              /\ record.demographic_score = DemographicRaw(record)
              /\ record.behavioral_score = BehavioralRaw(record)
              /\ record.engagement_score = EngagementRaw(record, now)
              /\ record.lead_score
                   = DemographicRaw(record) + BehavioralRaw(record) + EngagementRaw(record, now)

\* Every raw sub-score is at its largest and the caps still change nothing.
C27_Witness ==
    /\ entity = "lead" /\ Called
    /\ DemographicRaw(record) = 30 /\ BehavioralRaw(record) = 40
    /\ EngagementRaw(record, now) = 30
    /\ record.total_interactions = 11 /\ record.lead_score = 100

\* How many times method m was called on the session of generator s.
CallsOf(s, m) == Cardinality({k \in 1..Len(s.calls) : s.calls[k] = m})

\* In the calls of s a rollback comes before every close.
RollbackBeforeClose(s) ==
    /\ CallsOf(s, "rollback") >= 1
    /\ \A k \in 1..Len(s.calls) :
          s.calls[k] = "close" => \E j \in 1..(k - 1) : s.calls[j] = "rollback"

\* C28 as stated: a session whose consumer is done was closed exactly once;
\* if the consumer raised, rollback came before close and the generator
\* ended with DatabaseException.
C28_ClosedExactlyOnce ==
    entity = "session" =>
        \A i \in 1..MaxSessions :
            LET s == record.pool[i]
            IN  s.pc = "done" =>
                  /\ CallsOf(s, "close") = 1
                  /\ s.thrown # NULL =>
                        /\ RollbackBeforeClose(s)
                        /\ s.outcome = Some("DatabaseException")

\* C28: a session whose consumer is done was closed, once by
\* get_sync_session and twice by get_async_session (by its finally and by
\* leaving `async with`), and close was the last call.  If the consumer
\* raised an Exception, one rollback came before the closes and the generator
\* ended with DatabaseException; if it raised another BaseException, no
\* rollback was issued and that exception ended the generator; no exception
\* of the consumer ends in a normal return.
C28_ClosedAndSurfaced ==
    entity = "session" =>
        \A i \in 1..MaxSessions :
            LET s == record.pool[i]
            IN  s.pc = "done" =>
                  /\ CallsOf(s, "close") = IF s.kind = "async" THEN 2 ELSE 1
                  /\ s.calls[Len(s.calls)] = "close"
                  /\ s.thrown = NULL =>
                        CallsOf(s, "rollback") = 0 /\ s.outcome = Some("return")
                  /\ (s.thrown # NULL /\ IsException(Val(s.thrown))) =>
                        /\ CallsOf(s, "rollback") = 1
                        /\ RollbackBeforeClose(s)
                        /\ s.outcome = Some("DatabaseException")
                  /\ (s.thrown # NULL /\ ~IsException(Val(s.thrown))) =>
                        CallsOf(s, "rollback") = 0 /\ s.outcome = s.thrown

\* An async session whose consumer raised ValueError and a sync session whose
\* consumer was cancelled have both ended.
C28_Witness ==
    /\ entity = "session"
    /\ record.pool[1].kind = "async" /\ record.pool[1].pc = "done"
    /\ record.pool[1].thrown = Some("ValueError")
    /\ record.pool[1].calls = <<"rollback", "close", "close">>
    /\ record.pool[1].outcome = Some("DatabaseException")
    /\ record.pool[2].kind = "sync" /\ record.pool[2].pc = "done"
    /\ record.pool[2].thrown = Some("CancelledError")
    /\ record.pool[2].calls = <<"close">>

\* C29: when the customer service fails, the response of list_customers is
\* an HTTP 500 whose detail is "Failed to retrieve customers", whatever
\* search, status and segment_id are.
C29_FailureDetail ==
    (entity = "request" /\ record.pc = "done" /\ record.service = "fails") =>
        /\ record.response.code = 500
        /\ record.response.detail = Some("Failed to retrieve customers")

\* What holds of the response to a failing service: it is a 500 with no
\* detail, written by one of the exception handlers of main.py.
C29_FailureIsServerError ==
    (entity = "request" /\ record.pc = "done" /\ record.service = "fails") =>
        /\ record.response.code = 500
        /\ record.response.detail = NULL
        /\ record.response.error \in {Some("system_error"), Some("internal_server_error")}

=============================================================================
